---- MODULE Spec2Model ----
(***************************************************************************)
(* A model of email_to_replies.py: the Title Set, sanitize_name,           *)
(* get_contact, get_replies, get_metadata and get_signature.               *)
(*                                                                         *)
(* A Python str is modelled as a sequence of one-character strings, so     *)
(* that slicing, splitting, stripping, case mapping and the regular        *)
(* expressions are computed character by character as Python computes      *)
(* them.  None is the empty tuple and a present value v is <<v>>.  A file  *)
(* is the sequence of the characters its bytes decode to.                  *)
(***************************************************************************)
EXTENDS Integers, Sequences, FiniteSets, TLC

VARIABLES pc, titles_txt, TITLES, name, sanitized_name, resanitized_name,
          message_file, charset, replies, reply, metadata, sender,
          length_divisor, signature_metadata, loop_i, loop_j

vars == <<pc, titles_txt, TITLES, name, sanitized_name, resanitized_name,
          message_file, charset, replies, reply, metadata, sender,
          length_divisor, signature_metadata, loop_i, loop_j>>

(***************************************************************************)
(* Python values.                                                          *)
(***************************************************************************)
None == <<>>

Some(v) == <<v>>

\* A character of a str is one of U+0000 to U+00FF, written as itself, or
\* one of the three characters beyond that range that str.upper() and
\* str.lower() reach from it, written by their code points: "U+0178",
\* "U+039C" and "U+03BC".  The tables below are those of Python over these
\* characters, which upper() and lower() do not lead out of.

\* The characters str.split() and str.strip() treat as whitespace and \s
\* matches in a str pattern, those for which str.isspace() is true: U+0009
\* to U+000D, U+001C to U+001F, the space, U+0085 and U+00A0.
Whitespace ==
    { "\t", "\n", "", "\f", "\r", "", "", "", "", " ", "", " " }

\* The characters for which str.isalpha() is true.
Letters ==
    { "A", "B", "C", "D", "E", "F", "G", "H", "I", "J", "K", "L", "M", "N",
      "O", "P", "Q", "R", "S", "T", "U", "V", "W", "X", "Y", "Z", "a", "b",
      "c", "d", "e", "f", "g", "h", "i", "j", "k", "l", "m", "n", "o", "p",
      "q", "r", "s", "t", "u", "v", "w", "x", "y", "z", "ª", "µ", "º", "À",
      "Á", "Â", "Ã", "Ä", "Å", "Æ", "Ç", "È", "É", "Ê", "Ë", "Ì", "Í", "Î",
      "Ï", "Ð", "Ñ", "Ò", "Ó", "Ô", "Õ", "Ö", "Ø", "Ù", "Ú", "Û", "Ü", "Ý",
      "Þ", "ß", "à", "á", "â", "ã", "ä", "å", "æ", "ç", "è", "é", "ê", "ë",
      "ì", "í", "î", "ï", "ð", "ñ", "ò", "ó", "ô", "õ", "ö", "ø", "ù", "ú",
      "û", "ü", "ý", "þ", "ÿ", "U+0178", "U+039C", "U+03BC" }

\* The characters str.upper() changes ...
UpperFrom ==
    << "a", "b", "c", "d", "e", "f", "g", "h", "i", "j", "k", "l", "m",
       "n", "o", "p", "q", "r", "s", "t", "u", "v", "w", "x", "y", "z",
       "µ", "ß", "à", "á", "â", "ã", "ä", "å", "æ", "ç", "è", "é", "ê",
       "ë", "ì", "í", "î", "ï", "ð", "ñ", "ò", "ó", "ô", "õ", "ö", "ø",
       "ù", "ú", "û", "ü", "ý", "þ", "ÿ", "U+03BC" >>

\* ... and what it makes of each: "ß" becomes the two characters "SS".
UpperTo ==
    << <<"A">>, <<"B">>, <<"C">>, <<"D">>, <<"E">>, <<"F">>, <<"G">>,
       <<"H">>, <<"I">>, <<"J">>, <<"K">>, <<"L">>, <<"M">>, <<"N">>,
       <<"O">>, <<"P">>, <<"Q">>, <<"R">>, <<"S">>, <<"T">>, <<"U">>,
       <<"V">>, <<"W">>, <<"X">>, <<"Y">>, <<"Z">>, <<"U+039C">>,
       <<"S","S">>, <<"À">>, <<"Á">>, <<"Â">>, <<"Ã">>, <<"Ä">>, <<"Å">>,
       <<"Æ">>, <<"Ç">>, <<"È">>, <<"É">>, <<"Ê">>, <<"Ë">>, <<"Ì">>,
       <<"Í">>, <<"Î">>, <<"Ï">>, <<"Ð">>, <<"Ñ">>, <<"Ò">>, <<"Ó">>,
       <<"Ô">>, <<"Õ">>, <<"Ö">>, <<"Ø">>, <<"Ù">>, <<"Ú">>, <<"Û">>,
       <<"Ü">>, <<"Ý">>, <<"Þ">>, <<"U+0178">>, <<"U+039C">> >>

\* The characters str.lower() changes ...
LowerFrom ==
    << "A", "B", "C", "D", "E", "F", "G", "H", "I", "J", "K", "L", "M",
       "N", "O", "P", "Q", "R", "S", "T", "U", "V", "W", "X", "Y", "Z",
       "À", "Á", "Â", "Ã", "Ä", "Å", "Æ", "Ç", "È", "É", "Ê", "Ë", "Ì",
       "Í", "Î", "Ï", "Ð", "Ñ", "Ò", "Ó", "Ô", "Õ", "Ö", "Ø", "Ù", "Ú",
       "Û", "Ü", "Ý", "Þ", "U+0178", "U+039C" >>

\* ... and what it makes of each.
LowerTo ==
    << <<"a">>, <<"b">>, <<"c">>, <<"d">>, <<"e">>, <<"f">>, <<"g">>,
       <<"h">>, <<"i">>, <<"j">>, <<"k">>, <<"l">>, <<"m">>, <<"n">>,
       <<"o">>, <<"p">>, <<"q">>, <<"r">>, <<"s">>, <<"t">>, <<"u">>,
       <<"v">>, <<"w">>, <<"x">>, <<"y">>, <<"z">>, <<"à">>, <<"á">>,
       <<"â">>, <<"ã">>, <<"ä">>, <<"å">>, <<"æ">>, <<"ç">>, <<"è">>,
       <<"é">>, <<"ê">>, <<"ë">>, <<"ì">>, <<"í">>, <<"î">>, <<"ï">>,
       <<"ð">>, <<"ñ">>, <<"ò">>, <<"ó">>, <<"ô">>, <<"õ">>, <<"ö">>,
       <<"ø">>, <<"ù">>, <<"ú">>, <<"û">>, <<"ü">>, <<"ý">>, <<"þ">>,
       <<"ÿ">>, <<"U+03BC">> >>

ToUpper == [c \in {UpperFrom[k] : k \in 1..Len(UpperFrom)} |->
               UpperTo[CHOOSE k \in 1..Len(UpperFrom) : UpperFrom[k] = c]]

ToLower == [c \in {LowerFrom[k] : k \in 1..Len(LowerFrom)} |->
               LowerTo[CHOOSE k \in 1..Len(LowerFrom) : LowerFrom[k] = c]]

\* str.isalpha() of one character.
isalpha(c) == c \in Letters

\* str.upper() and str.lower() of one character: a string.
UpperChar(c) == IF c \in DOMAIN ToUpper THEN ToUpper[c] ELSE <<c>>

LowerChar(c) == IF c \in DOMAIN ToLower THEN ToLower[c] ELSE <<c>>

RECURSIVE Concat(_)
\* The concatenation of a list of lists.
Concat(ls) == IF ls = <<>> THEN <<>> ELSE Head(ls) \o Concat(Tail(ls))

\* str.upper() and str.lower().
upper(s) == Concat([k \in 1..Len(s) |-> UpperChar(s[k])])

lower(s) == Concat([k \in 1..Len(s) |-> LowerChar(s[k])])

\* s[a:b] with 0-based, end-exclusive, in-range indices (a Python slice).
Slice(s, a, b) == SubSeq(s, a + 1, b)

\* s[:k], which is the whole of s when s is shorter than k.
Prefix(s, k) == SubSeq(s, 1, IF Len(s) < k THEN Len(s) ELSE k)

\* s[k:], which is empty when s is shorter than k.
Suffix(s, k) == SubSeq(s, k + 1, Len(s))

\* The Python test `a in b` of two strings.
IsSubstring(a, b) ==
    \E k \in 0..(Len(b) - Len(a)) : SubSeq(b, k + 1, k + Len(a)) = a

RECURSIVE SplitWs(_, _, _)
SplitWs(s, cur, acc) ==
    IF s = <<>>
    THEN IF cur = <<>> THEN acc ELSE Append(acc, cur)
    ELSE IF Head(s) \in Whitespace
         THEN SplitWs(Tail(s), <<>>, IF cur = <<>> THEN acc ELSE Append(acc, cur))
         ELSE SplitWs(Tail(s), Append(cur, Head(s)), acc)

\* str.split(): the maximal runs of non-whitespace characters.
split(s) == SplitWs(s, <<>>, <<>>)

RECURSIVE SplitAt(_, _, _, _)
SplitAt(s, sep, cur, acc) ==
    IF s = <<>>
    THEN Append(acc, cur)
    ELSE IF Head(s) = sep
         THEN SplitAt(Tail(s), sep, <<>>, Append(acc, cur))
         ELSE SplitAt(Tail(s), sep, Append(cur, Head(s)), acc)

\* str.split(sep) for a one-character separator: one piece more than separators.
split_on(s, sep) == SplitAt(s, sep, <<>>, <<>>)

RECURSIVE join(_, _)
\* sep.join(parts).
join(sep, parts) ==
    IF parts = <<>> THEN <<>>
    ELSE IF Len(parts) = 1 THEN parts[1]
    ELSE parts[1] \o sep \o join(sep, Tail(parts))

RECURSIVE LStrip(_)
LStrip(s) ==
    IF s # <<>> /\ Head(s) \in Whitespace THEN LStrip(Tail(s)) ELSE s

RECURSIVE RStrip(_)
RStrip(s) ==
    IF s # <<>> /\ s[Len(s)] \in Whitespace
    THEN RStrip(SubSeq(s, 1, Len(s) - 1))
    ELSE s

\* str.strip().
strip(s) == RStrip(LStrip(s))

RECURSIVE RemoveAll(_, _)
\* s.replace(pat, ""): the non-overlapping occurrences, left to right.
RemoveAll(s, pat) ==
    IF Len(s) < Len(pat) \/ s = <<>> THEN s
    ELSE IF SubSeq(s, 1, Len(pat)) = pat
         THEN RemoveAll(SubSeq(s, Len(pat) + 1, Len(s)), pat)
         ELSE <<Head(s)>> \o RemoveAll(Tail(s), pat)

Range(s) == {s[k] : k \in 1..Len(s)}

RECURSIVE StringsUpTo(_, _)
\* Every string over the characters cs of at most n characters.
StringsUpTo(cs, n) ==
    IF n = 0 THEN {<<>>}
    ELSE LET shorter == StringsUpTo(cs, n - 1)
         IN  shorter \cup {Append(s, c) : s \in shorter, c \in cs}

(***************************************************************************)
(* Reading a file.                                                         *)
(***************************************************************************)
\* What stands in a file for bytes that are no encoded character, such as
\* the byte FF in UTF-8.
Undecodable == "undecodable"

\* What stands in a file for the first bytes of a character encoded in
\* several bytes, the rest of which is missing, such as the byte C3 alone in
\* UTF-8: whatever follows it in the file is not the rest.
Incomplete == "incomplete"

\* Whether read() raises UnicodeDecodeError on the file.  The built-in
\* open's text file (no encoding given) decodes the end of the file as
\* final, and an incomplete character there is an error; the reader that
\* codecs.open makes for an encoding keeps the bytes of an incomplete
\* character at the end back and raises nothing for them.
RaisesUnicodeDecodeError(file, cs) ==
    \/ Undecodable \in Range(file)
    \/ \E k \in 1..Len(file) :
          file[k] = Incomplete /\ (k < Len(file) \/ cs = None)

\* What the reader decodes: all of the file but an incomplete character at
\* its end.
Decoded(file) ==
    IF file # <<>> /\ file[Len(file)] = Incomplete
    THEN SubSeq(file, 1, Len(file) - 1)
    ELSE file

RECURSIVE UniversalNewlines(_)
\* The newline translation of a file opened in text mode with the default
\* newline=None: "\r\n" and a lone "\r" are read as "\n".
UniversalNewlines(s) ==
    IF s = <<>> THEN <<>>
    ELSE IF Head(s) = "\r"
         THEN IF Len(s) >= 2 /\ s[2] = "\n"
              THEN <<"\n">> \o UniversalNewlines(Tail(Tail(s)))
              ELSE <<"\n">> \o UniversalNewlines(Tail(s))
         ELSE <<Head(s)>> \o UniversalNewlines(Tail(s))

\* open(file).read(): the built-in open, in text mode.
read(file) == UniversalNewlines(file)

\* codecs.open(file, "r", encoding=cs).read(): without an encoding the file
\* is the built-in open's, in text mode; with one it is opened in binary
\* mode and decoded, and no newline is translated.
codecs_read(file, cs) == IF cs = None THEN read(file) ELSE Decoded(file)

(***************************************************************************)
(* The Title Set (the module global TITLES).                               *)
(***************************************************************************)
\* TITLES as the import computes it from the file _titles.txt.
LoadTitles(file) == {t \in Range(split(read(file))) : t[1] # "#"}

(***************************************************************************)
(* sanitize_name                                                           *)
(***************************************************************************)
\* A token with its non-alphabetic characters removed.
AlphaOnly(name_part) == SelectSeq(name_part, isalpha)

\* A mutant of SanitizeToken: the title test is made on the token as
\* written, before its non-alphabetic characters are removed.
SanitizeTokenTitleFirst(name_part) ==
    IF upper(AlphaOnly(name_part)) = AlphaOnly(name_part) THEN <<>>
    ELSE IF name_part \in TITLES THEN <<>>
    ELSE <<AlphaOnly(name_part)>>

\* One pass of the loop body: what the token adds to sanitized_name.
SanitizeToken(name_part) ==
    IF upper(AlphaOnly(name_part)) = AlphaOnly(name_part) THEN <<>>
    ELSE IF AlphaOnly(name_part) \in TITLES THEN <<>>
    ELSE <<AlphaOnly(name_part)>>

RECURSIVE SanitizeParts(_)
SanitizeParts(parts) ==
    IF parts = <<>> THEN <<>>
    ELSE SanitizeToken(Head(parts)) \o SanitizeParts(Tail(parts))

sanitize_name(n) == join(<<" ">>, SanitizeParts(split(n)))

(***************************************************************************)
(* get_contact                                                             *)
(***************************************************************************)
OpenBrackets == {"<", "["}

CloseBrackets == {">", "]"}

\* The (p, q) at which  (.*)[<\[](.*)[>\]]  can put its two brackets when
\* matched at the start of the line: "." matches no newline.
BracketPairs(line) ==
    {pq \in (1..Len(line)) \X (1..Len(line)) :
        /\ pq[1] < pq[2]
        /\ line[pq[1]] \in OpenBrackets
        /\ line[pq[2]] \in CloseBrackets
        /\ \A k \in 1..(pq[2] - 1) : k # pq[1] => line[k] # "\n"}

\* Both groups are greedy: the first takes the longest prefix that still
\* lets the rest match, then the second does.
ContactMatch(line) ==
    LET pairs == BracketPairs(line)
        p == CHOOSE x \in {pq[1] : pq \in pairs} :
                 \A y \in {pq[1] : pq \in pairs} : y <= x
        q == CHOOSE x \in {pq[2] : pq \in {r \in pairs : r[1] = p}} :
                 \A y \in {pq[2] : pq \in {r \in pairs : r[1] = p}} : y <= x
    IN  <<SubSeq(line, 1, p - 1), SubSeq(line, p + 1, q - 1)>>

Mailto == <<"m","a","i","l","t","o",":">>

get_contact(line) ==
    IF BracketPairs(line) # {}
    THEN [name_original |-> strip(ContactMatch(line)[1]),
          name          |-> sanitize_name(strip(ContactMatch(line)[1])),
          address       |-> Some(RemoveAll(strip(ContactMatch(line)[2]), Mailto))]
    ELSE [name_original |-> line,
          name          |-> sanitize_name(line),
          address       |-> None]

(***************************************************************************)
(* get_replies                                                             *)
(***************************************************************************)
OriginalMessage ==
    <<"O","r","i","g","i","n","a","l"," ","M","e","s","s","a","g","e">>

FromPrefix == <<"F","r","o","m",":"," ">>

RECURSIVE RunEnd(_, _, _)
\* The first position at or after p whose character is not in cs.
RunEnd(s, p, cs) ==
    IF p <= Len(s) /\ s[p] \in cs THEN RunEnd(s, p + 1, cs) ELSE p

\* .[-]+[\s]{0,}Original Message[\s]{0,}[-]+\n  with re.I, tried at position
\* p: the position after the match, or 0 when there is none.  The classes
\* are disjoint, so the greedy match is the only one.
SeparatorMatchEnd(s, p) ==
    LET d1 == RunEnd(s, p + 1, {"-"})
        w1 == RunEnd(s, d1, Whitespace)
        m1 == w1 + Len(OriginalMessage)
        w2 == RunEnd(s, m1, Whitespace)
        d2 == RunEnd(s, w2, {"-"})
    IN  IF /\ p <= Len(s)
           /\ s[p] # "\n"
           /\ d1 > p + 1
           /\ m1 - 1 <= Len(s)
           /\ lower(SubSeq(s, w1, m1 - 1)) = lower(OriginalMessage)
           /\ d2 > w2
           /\ d2 <= Len(s)
           /\ s[d2] = "\n"
        THEN d2 + 1
        ELSE 0

RECURSIVE SubFrom(_, _)
\* re.sub(pattern, "", s) from position p on: the leftmost match at each
\* position is removed and the scan goes on after it.
SubFrom(s, p) ==
    IF p > Len(s) THEN <<>>
    ELSE IF SeparatorMatchEnd(s, p) # 0
         THEN SubFrom(s, SeparatorMatchEnd(s, p))
         ELSE <<s[p]>> \o SubFrom(s, p + 1)

RemoveOriginalMessageHeaders(text) == SubFrom(text, 1)

\* breakpoints: 0, the 0-based index of every line that starts "From: ",
\* and the number of lines.
Breakpoints(lines) ==
    <<0>> \o SelectSeq([k \in 1..Len(lines) |-> k - 1],
                       LAMBDA b : Prefix(lines[b + 1], 6) = FromPrefix)
          \o <<Len(lines)>>

\* The replies of the message in the file, which the codec decodes.
get_replies(file, cs) ==
    LET message == codecs_read(file, cs)
        lines == split_on(RemoveOriginalMessageHeaders(message), "\n")
        breakpoints == Breakpoints(lines)
    IN  [br \in 1..(Len(breakpoints) - 1) |->
            Slice(lines, breakpoints[br], breakpoints[br + 1])]

(***************************************************************************)
(* get_metadata                                                            *)
(***************************************************************************)
ToPrefix == <<"T","o",":"," ">>

CcPrefix == <<"C","c",":"," ">>

SentPrefix == <<"S","e","n","t",":"," ">>

SubjectPrefix == <<"S","u","b","j","e","c","t",":"," ">>

\* The loop stops after the line for which i > StopAfter.
StopAfter == 9

\* A mutant of MetadataLine: sender, timestamp and subject are set once and
\* a later header line leaves them alone.
MetadataLineFirstWins(md, line) ==
    IF Prefix(line, 6) = FromPrefix
    THEN IF md.sender # None THEN md
         ELSE [md EXCEPT !.sender = Some(get_contact(Suffix(line, 6)))]
    ELSE IF Prefix(line, 4) = ToPrefix \/ Prefix(line, 4) = CcPrefix
    THEN [md EXCEPT !.recipients =
             IF md.recipients = None
             THEN Some(<<get_contact(Suffix(line, 4))>>)
             ELSE Some(Append(md.recipients[1], get_contact(Suffix(line, 4))))]
    ELSE IF Prefix(line, 6) = SentPrefix
    THEN IF md.timestamp # None THEN md
         ELSE [md EXCEPT !.timestamp = Some(Suffix(line, 6))]
    ELSE IF Prefix(line, 9) = SubjectPrefix
    THEN IF md.subject # None THEN md
         ELSE [md EXCEPT !.subject = Some(Suffix(line, 9))]
    ELSE md

\* The if/elif chain of the loop body applied to one line.
MetadataLine(md, line) ==
    IF Prefix(line, 6) = FromPrefix
    THEN [md EXCEPT !.sender = Some(get_contact(Suffix(line, 6)))]
    ELSE IF Prefix(line, 4) = ToPrefix \/ Prefix(line, 4) = CcPrefix
    THEN [md EXCEPT !.recipients =
             IF md.recipients = None
             THEN Some(<<get_contact(Suffix(line, 4))>>)
             ELSE Some(Append(md.recipients[1], get_contact(Suffix(line, 4))))]
    ELSE IF Prefix(line, 6) = SentPrefix
    THEN [md EXCEPT !.timestamp = Some(Suffix(line, 6))]
    ELSE IF Prefix(line, 9) = SubjectPrefix
    THEN [md EXCEPT !.subject = Some(Suffix(line, 9))]
    ELSE md

RECURSIVE MetadataLoop(_, _, _, _)
\* The for loop from the line of 0-based index i on.
MetadataLoop(r, i, md, stop) ==
    IF i >= Len(r) THEN md
    ELSE IF i > stop THEN MetadataLine(md, r[i + 1])
    ELSE MetadataLoop(r, i + 1, MetadataLine(md, r[i + 1]), stop)

\* A mutant of get_metadata: the loop stops one line later.
get_metadata_late(r) ==
    MetadataLoop(r, 0, [sender |-> None, recipients |-> None, timestamp |-> None,
                        subject |-> None, lines |-> Len(r)], StopAfter + 1)

get_metadata(r) ==
    MetadataLoop(r, 0, [sender |-> None, recipients |-> None, timestamp |-> None,
                        subject |-> None, lines |-> Len(r)], StopAfter)

(***************************************************************************)
(* get_signature                                                           *)
(***************************************************************************)
\* A mutant of LineMatches: one matching token is enough.
LineMatchesOneToken(line, sndr) ==
    LET tokens == split(sanitize_name(line))
        found_sender == SelectSeq(tokens,
                            LAMBDA t : IsSubstring(lower(t), lower(sndr.name)))
    IN  Len(tokens) > 0 /\ found_sender = tokens

\* Whether the loop body takes a line for the first line of the signature.
LineMatches(line, sndr) ==
    LET tokens == split(sanitize_name(line))
        found_sender == SelectSeq(tokens,
                            LAMBDA t : IsSubstring(lower(t), lower(sndr.name)))
    IN  Len(tokens) > 1 /\ found_sender = tokens

\* `j == max_length`, where max_length = len(reply_reversed)/length_divisor
\* is Python 3's true division (a float): an int j equals it exactly when
\* the quotient is whole and is j.  The divisor is not 0 here.
AtMaxLength(j, len, divisor) == j * divisor = len

RECURSIVE SignatureLoop(_, _, _, _, _)
\* The for loop over reply_reversed from its line of 0-based index j on
\* (line Len(r) - j of the reply r), with the counters i and j as they are
\* when that line is reached: whether the loop ended on a match, and the
\* counters when it ended.
SignatureLoop(r, sndr, divisor, i, j) ==
    IF j >= Len(r) THEN [found |-> FALSE, i |-> i, j |-> j]
    ELSE IF AtMaxLength(j, Len(r), divisor) THEN [found |-> FALSE, i |-> i, j |-> j]
    ELSE IF LineMatches(r[Len(r) - j], sndr) THEN [found |-> TRUE, i |-> i, j |-> j]
    ELSE SignatureLoop(r, sndr, divisor, i - 1, j + 1)

\* A mutant of SignatureText: the slice starts one line late.
SignatureTextLate(r, i) == strip(join(<<"\n">>, Suffix(r, i)))

\* signature: "\n".join(reply[i-1:]).strip()
SignatureText(r, i) == strip(join(<<"\n">>, Suffix(r, i - 1)))

\* reply_text: "\n".join(reply[:i-1]).strip()
ReplyText(r, i) == strip(join(<<"\n">>, Prefix(r, i - 1)))

\* The value `if sender["address"]` tests.
Truthy(opt) == opt # None /\ opt[1] # <<>>

\* The returned dict, for the counters the loop ended with.
SignatureMetadata(r, sndr, loop) ==
    IF loop.found
    THEN [has_signature |-> TRUE,
          signature     |-> Some(SignatureText(r, loop.i)),
          reply_text    |-> Some(ReplyText(r, loop.i)),
          address_in_signature |->
              IF Truthy(sndr.address)
              THEN IsSubstring(lower(sndr.address[1]),
                               lower(SignatureText(r, loop.i)))
              ELSE FALSE]
    ELSE [has_signature |-> FALSE, signature |-> None, reply_text |-> None,
          address_in_signature |-> FALSE]

\* A mutant of Raises: a zero divisor is taken for "no limit" and not divided by.
RaisesNever(divisor) == FALSE

\* Whether len(reply_reversed)/length_divisor raises ZeroDivisionError.
Raises(divisor) == divisor = 0

(***************************************************************************)
(* Inputs.                                                                 *)
(***************************************************************************)
\* The longest title list, in characters.
MaxTitleLen == 5

\* The longest name given to sanitize_name, in characters.
MaxNameLen == 5

\* The most pieces a message is put together from.
MaxChunks == 6

\* The most lines of a reply given to get_metadata.
MaxMetaLines == 12

\* The most lines of a reply given to get_signature.
MaxSigLines == 3

\* The largest length_divisor.
MaxDivisor == 3

TitleChars == {"#", "D", "r", " ", "\n", "\r", ""}

\* "Dr Jr", "# ranks\nDr Gen" and "Smith\n#x Dr".
TitleFiles ==
    { <<"D","r"," ","J","r">>,
      <<"#"," ","r","a","n","k","s","\n","D","r"," ","G","e","n">>,
      <<"S","m","i","t","h","\n","#","x"," ","D","r">> }

\* "Dr" before bytes that are no character, and "Dr\n" before an incomplete
\* character at the end of the file.
UndecodableTitleFiles ==
    { <<"D","r",Undecodable>>, <<"D","r","\n",Incomplete>> }

NameChars == {"D", "r", ".", " ", "\f", "é"}

\* "Brigadier General John A. B. C. Smith", "Dr. ranks O'Neil Jr",
\* "  Poe,\tEdgar  Allan ", "Jos\xe9 M\xfcller",
\* "Stra\xdfe\x1f\xb5\xa0\xffz JOS\xc9 \xdf" and "\u039c\u03bc, \u0178\xff \u0178".
SampleNames ==
    { <<"B","r","i","g","a","d","i","e","r"," ","G","e","n","e","r","a","l"," ",
        "J","o","h","n"," ","A","."," ","B","."," ","C","."," ","S","m","i","t","h">>,
      <<"D","r","."," ","r","a","n","k","s"," ","O","'","N","e","i","l"," ","J","r">>,
      <<" "," ","P","o","e",",","\t","E","d","g","a","r"," "," ","A","l","l","a","n"," ">>,
      <<"J","o","s","é"," ","M","ü","l","l","e","r">>,
      <<"S","t","r","a","ß","e","","µ"," ","ÿ","z"," ",
        "J","O","S","É"," ","ß">>,
      <<"U+039C","U+03BC",","," ","U+0178","ÿ"," ","U+0178">> }

MessageChunks ==
    { <<"x">>, <<"-">>, <<" ">>, <<"\n">>, <<"\r">>, OriginalMessage, FromPrefix }

RECURSIVE MessagesUpTo(_)
\* Every message put together from at most n chunks.
MessagesUpTo(n) ==
    IF n = 0 THEN {<<>>}
    ELSE LET shorter == MessagesUpTo(n - 1)
         IN  shorter \cup {m \o c : m \in shorter, c \in MessageChunks}

\* "x-\fORIGINAL message\v-\r\nFrom: b\r\n", "a\rb", a file that begins with
\* bytes the codec cannot decode, "-- original MESSAGE\x85--\nJos\xe9\r", and
\* files with an incomplete character: "a" and "From: a\nb\r" before one at
\* the end, "a" and "b" around one, and one alone.
SampleMessages ==
    { <<"x","-","\f">> \o upper(SubSeq(OriginalMessage, 1, 8)) \o <<" ">>
          \o lower(SubSeq(OriginalMessage, 10, 16))
          \o <<"","-","\r","\n">> \o FromPrefix \o <<"b","\r","\n">>,
      <<"a","\r","b">>,
      <<Undecodable,"\n">> \o FromPrefix \o <<"b">>,
      <<"a",Incomplete>>,
      FromPrefix \o <<"a","\n","b","\r",Incomplete>>,
      <<"a",Incomplete,"b">>,
      <<Incomplete>>,
      <<"a",Undecodable,Incomplete>>,
      <<"-","-"," ">> \o lower(SubSeq(OriginalMessage, 1, 8)) \o <<" ">>
          \o upper(SubSeq(OriginalMessage, 10, 16))
          \o <<"","-","-","\n","J","o","s","é","\r">> }

\* The codecs get_replies is called with: none, and one by name.
Charsets == {None, Some(<<"u","t","f","-","8">>)}

Hello == <<"h","e","l","l","o">>

\* "From: Ann <a@x>", "From: Dr. Bob", "To: Bob <b@x>", "Cc: Al [mailto:c@x]",
\* "Sent: Mon", "Sent: Tue", "Subject: Hi", "Subject: Re", "from: x", "hello".
MetaLines ==
    { FromPrefix \o <<"A","n","n"," ","<","a","@","x",">">>,
      FromPrefix \o <<"D","r","."," ","B","o","b">>,
      ToPrefix \o <<"B","o","b"," ","<","b","@","x",">">>,
      CcPrefix \o <<"A","l"," ","[","m","a","i","l","t","o",":","c","@","x","]">>,
      SentPrefix \o <<"M","o","n">>,
      SentPrefix \o <<"T","u","e">>,
      SubjectPrefix \o <<"H","i">>,
      SubjectPrefix \o <<"R","e">>,
      <<"f","r","o","m",":"," ","x">>,
      Hello }

\* The replies given to get_metadata: at most `most` lines "hello", two of
\* them replaced.
MetaReplies(most) ==
    {<<>>} \cup
    {[k \in 1..n |-> IF k = p2 THEN h2 ELSE IF k = p1 THEN h1 ELSE Hello] :
        n \in 1..most, p1 \in 1..most, p2 \in 1..most,
        h1 \in MetaLines, h2 \in MetaLines}

JohnSmith == <<"J","o","h","n"," ","S","m","i","t","h">>

Thanks == <<"T","h","a","n","k","s",",">>

\* "John Smith", "Thanks,", "", "Hi John js@x", "smith" and
\* "JOS\xc9\fjos\xc9\xa0smith".
SigLines ==
    { JohnSmith, Thanks, <<>>,
      <<"H","i"," ","J","o","h","n"," ","j","s","@","x">>,
      <<"s","m","i","t","h">>,
      <<"J","O","S","É","\f","j","o","s","É"," ","s","m","i","t","h">> }

\* The From: lines the senders are parsed from: "John Smith <js@x>",
\* "Dr. Jos\xe9 A. Smith [mailto:JS@X]" and "DR".
SenderLines ==
    { JohnSmith \o <<" ","<","j","s","@","x",">">>,
      <<"D","r","."," ","J","o","s","é"," ","A","."," ","S","m","i","t","h"," ",
        "[","m","a","i","l","t","o",":","J","S","@","X","]">>,
      <<"D","R">> }

Divisors == (0 - 2)..MaxDivisor

(***************************************************************************)
(* The import of the module: TITLES is built from _titles.txt.             *)
(***************************************************************************)
Idle ==
    /\ name = None /\ sanitized_name = None /\ resanitized_name = None
    /\ message_file = None /\ charset = None /\ replies = None
    /\ reply = None /\ metadata = None
    /\ sender = None /\ length_divisor = 0 /\ signature_metadata = None
    /\ loop_i = 0 /\ loop_j = 0

InitTitles ==
    /\ pc = "import"
    /\ titles_txt \in StringsUpTo(TitleChars, MaxTitleLen) \cup UndecodableTitleFiles
    /\ TITLES = {}
    /\ Idle

ImportModule ==
    /\ pc = "import"
    /\ IF RaisesUnicodeDecodeError(titles_txt, None)
       THEN pc' = "UnicodeDecodeError" /\ UNCHANGED TITLES
       ELSE pc' = "imported" /\ TITLES' = LoadTitles(titles_txt)
    /\ UNCHANGED <<titles_txt, name, sanitized_name, resanitized_name,
                   message_file, charset, replies, reply, metadata, sender, length_divisor,
                   signature_metadata, loop_i, loop_j>>

NextTitles == ImportModule

SpecTitles == InitTitles /\ [][NextTitles]_vars

(***************************************************************************)
(* sanitize_name, called on a name and then on its own result.             *)
(***************************************************************************)
InitSanitize ==
    /\ pc = "call"
    /\ titles_txt \in TitleFiles
    /\ TITLES = LoadTitles(titles_txt)
    /\ name \in {Some(n) : n \in StringsUpTo(NameChars, MaxNameLen) \cup SampleNames}
    /\ sanitized_name = None /\ resanitized_name = None
    /\ message_file = None /\ charset = None /\ replies = None
    /\ reply = None /\ metadata = None
    /\ sender = None /\ length_divisor = 0 /\ signature_metadata = None
    /\ loop_i = 0 /\ loop_j = 0

CallSanitizeName ==
    /\ pc = "call"
    /\ sanitized_name' = Some(sanitize_name(name[1]))
    /\ pc' = "sanitized"
    /\ UNCHANGED <<titles_txt, TITLES, name, resanitized_name, message_file,
                   charset, replies,
                   reply, metadata, sender, length_divisor, signature_metadata,
                   loop_i, loop_j>>

CallSanitizeNameAgain ==
    /\ pc = "sanitized"
    /\ resanitized_name' = Some(sanitize_name(sanitized_name[1]))
    /\ pc' = "resanitized"
    /\ UNCHANGED <<titles_txt, TITLES, name, sanitized_name, message_file,
                   charset, replies,
                   reply, metadata, sender, length_divisor, signature_metadata,
                   loop_i, loop_j>>

NextSanitize == CallSanitizeName \/ CallSanitizeNameAgain

SpecSanitize == InitSanitize /\ [][NextSanitize]_vars

(***************************************************************************)
(* get_replies                                                             *)
(***************************************************************************)
InitReplies ==
    /\ pc = "call"
    /\ titles_txt = <<"D","r"," ","J","r">>
    /\ TITLES = LoadTitles(titles_txt)
    /\ message_file \in {Some(m) : m \in MessagesUpTo(MaxChunks) \cup SampleMessages}
    /\ charset = None
    /\ replies = None
    /\ name = None /\ sanitized_name = None /\ resanitized_name = None
    /\ reply = None /\ metadata = None
    /\ sender = None /\ length_divisor = 0 /\ signature_metadata = None
    /\ loop_i = 0 /\ loop_j = 0

CallGetReplies ==
    /\ pc = "call"
    /\ \E cs \in Charsets :
          /\ charset' = cs
          /\ IF RaisesUnicodeDecodeError(message_file[1], cs)
             THEN pc' = "UnicodeDecodeError" /\ UNCHANGED replies
             ELSE /\ pc' = "returned"
                  /\ replies' = Some(get_replies(message_file[1], cs))
    /\ UNCHANGED <<titles_txt, TITLES, name, sanitized_name, resanitized_name,
                   message_file, reply, metadata, sender, length_divisor,
                   signature_metadata, loop_i, loop_j>>

NextReplies == CallGetReplies

SpecReplies == InitReplies /\ [][NextReplies]_vars

(***************************************************************************)
(* get_metadata                                                            *)
(***************************************************************************)
InitMetadata ==
    /\ pc = "call"
    /\ titles_txt = <<"D","r"," ","J","r">>
    /\ TITLES = LoadTitles(titles_txt)
    /\ reply \in {Some(r) : r \in MetaReplies(MaxMetaLines)}
    /\ metadata = None
    /\ name = None /\ sanitized_name = None /\ resanitized_name = None
    /\ message_file = None /\ charset = None /\ replies = None
    /\ sender = None /\ length_divisor = 0 /\ signature_metadata = None
    /\ loop_i = 0 /\ loop_j = 0

CallGetMetadata ==
    /\ pc = "call"
    /\ metadata' = Some(get_metadata(reply[1]))
    /\ pc' = "returned"
    /\ UNCHANGED <<titles_txt, TITLES, name, sanitized_name, resanitized_name,
                   message_file, charset, replies, reply, sender, length_divisor,
                   signature_metadata, loop_i, loop_j>>

NextMetadata == CallGetMetadata

SpecMetadata == InitMetadata /\ [][NextMetadata]_vars

(***************************************************************************)
(* get_signature, with the sender get_contact parsed from a From: line.    *)
(***************************************************************************)
InitSignature ==
    /\ pc = "call"
    /\ titles_txt \in TitleFiles
    /\ TITLES = LoadTitles(titles_txt)
    /\ reply \in {Some(r) : r \in StringsUpTo(SigLines, MaxSigLines)}
    /\ sender \in {Some(get_contact(l)) : l \in SenderLines}
    /\ length_divisor \in Divisors
    /\ signature_metadata = None
    /\ loop_i = 0 /\ loop_j = 0
    /\ name = None /\ sanitized_name = None /\ resanitized_name = None
    /\ message_file = None /\ charset = None /\ replies = None /\ metadata = None

CallGetSignature ==
    /\ pc = "call"
    /\ IF Raises(length_divisor)
       THEN /\ pc' = "ZeroDivisionError"
            /\ UNCHANGED <<signature_metadata, loop_i, loop_j>>
       ELSE LET loop == SignatureLoop(reply[1], sender[1], length_divisor,
                                      Len(reply[1]), 0)
            IN  /\ pc' = "returned"
                /\ signature_metadata' =
                       Some(SignatureMetadata(reply[1], sender[1], loop))
                /\ loop_i' = loop.i
                /\ loop_j' = loop.j
    /\ UNCHANGED <<titles_txt, TITLES, name, sanitized_name, resanitized_name,
                   message_file, charset, replies, reply, metadata, sender,
                   length_divisor>>

NextSignature == CallGetSignature

SpecSignature == InitSignature /\ [][NextSignature]_vars

(***************************************************************************)
(* The Title Set and the name sanitizer.                                   *)
(***************************************************************************)
\* The tokens of the lines of the title list that do not begin with "#".
NonCommentTokens(file) ==
    UNION {Range(split(l)) : l \in {x \in Range(split_on(read(file), "\n")) :
                                        Prefix(x, 1) # <<"#">>}}

\* The tokens of the lines of the title list that begin with "#".
CommentTokens(file) ==
    UNION {Range(split(l)) : l \in {x \in Range(split_on(read(file), "\n")) :
                                        Prefix(x, 1) = <<"#">>}}

\* C8: once the module is imported the Title Set contains no token taken
\* from a comment line of the title list: a token of a line beginning with
\* "#" is a member only if a non-comment line has it too.
C8_TitleSetExcludesCommentLines ==
    pc = "imported" =>
        \A t \in CommentTokens(titles_txt) \ NonCommentTokens(titles_txt) :
            t \notin TITLES

\* Whether s is a sanitized name: empty, or tokens separated by single
\* spaces, each non-empty, alphabetic, not its own uppercase and no title.
IsSanitized(s) ==
    \/ s = <<>>
    \/ \A t \in Range(split_on(s, " ")) :
          /\ t # <<>>
          /\ \A k \in 1..Len(t) : isalpha(t[k])
          /\ upper(t) # t
          /\ t \notin TITLES

\* C9: sanitize_name is idempotent, sanitizing a sanitized name returns it
\* unchanged, and what it returns is made of alphabetic tokens, none empty,
\* all-uppercase or in the Title Set, joined by single spaces.
C9_SanitizeIdempotent ==
    /\ pc \in {"sanitized", "resanitized"} => IsSanitized(sanitized_name[1])
    /\ pc = "resanitized" => resanitized_name = sanitized_name

\* sanitize_name dropped a title, stripped a token of a character and kept
\* two tokens or more, and was run again on its result.
C9_Witness ==
    /\ pc = "resanitized"
    /\ \E t \in Range(split(name[1])) : AlphaOnly(t) \in TITLES
    /\ \E t \in Range(split(name[1])) : AlphaOnly(t) # t
    /\ Len(split(sanitized_name[1])) >= 2

(***************************************************************************)
(* The reply splitter.                                                     *)
(***************************************************************************)
\* Whether the line from position p on is dashes, optional blanks, the words
\* "Original Message" in any case, optional blanks and dashes to its end.
SeparatorFrom(line, p) ==
    LET d1 == RunEnd(line, p, {"-"})
        w1 == RunEnd(line, d1, Whitespace)
        m1 == w1 + Len(OriginalMessage)
        w2 == RunEnd(line, m1, Whitespace)
        d2 == RunEnd(line, w2, {"-"})
    IN  /\ d1 > p
        /\ m1 - 1 <= Len(line)
        /\ lower(SubSeq(line, w1, m1 - 1)) = lower(OriginalMessage)
        /\ d2 > w2
        /\ d2 = Len(line) + 1

\* A whole "Original Message" separator line, read generously: one more
\* character may stand before the dashes.
IsSeparatorLine(line) == SeparatorFrom(line, 1) \/ SeparatorFrom(line, 2)

RECURSIVE OnlySeparatorsRemoved(_, _)
\* Whether `kept` is `lines` with some of its separator lines taken out
\* and nothing else changed.
OnlySeparatorsRemoved(kept, lines) ==
    IF lines = <<>> THEN kept = <<>>
    ELSE \/ /\ kept # <<>>
            /\ Head(kept) = Head(lines)
            /\ OnlySeparatorsRemoved(Tail(kept), Tail(lines))
         \/ /\ IsSeparatorLine(Head(lines))
            /\ OnlySeparatorsRemoved(kept, Tail(lines))

\* C1: the replies get_replies returns, concatenated in order, are the
\* lines of the message text as it was read from the file, with nothing but
\* whole "Original Message" separator lines removed: no other line, and no
\* part of a line, is dropped, duplicated, reordered or merged with its
\* neighbour.
C1_RepliesReconstructMessage ==
    pc = "returned" =>
        OnlySeparatorsRemoved(Concat(replies[1]),
            split_on(codecs_read(message_file[1], charset), "\n"))

(***************************************************************************)
(* The metadata extractor.                                                 *)
(***************************************************************************)
\* The lines of 0-based index 0 to 10.
ScannedLines(r) == Prefix(r, 11)

\* The lines of w that start with the prefix p, in order.
HeaderLines(w, p) == SelectSeq(w, LAMBDA l : Prefix(l, Len(p)) = p)

\* The value a single-valued field takes from header line l of prefix p.
FieldOf(l, p) ==
    IF p = FromPrefix THEN get_contact(Suffix(l, Len(p))) ELSE Suffix(l, Len(p))

\* C5 as claimed: sender, timestamp and subject are each taken from the
\* earliest "From: ", "Sent: " and "Subject: " line among the scanned lines.
C5_FirstHeaderWins ==
    pc = "returned" =>
        \A f \in {<<"sender", FromPrefix>>, <<"timestamp", SentPrefix>>,
                  <<"subject", SubjectPrefix>>} :
            LET hs == HeaderLines(ScannedLines(reply[1]), f[2])
            IN  hs # <<>> => metadata[1][f[1]] = Some(FieldOf(hs[1], f[2]))

\* C5 as amended: sender, timestamp and subject are each taken from the
\* latest "From: ", "Sent: " and "Subject: " line among the scanned lines,
\* an earlier one being overwritten; recipients alone accumulates, one
\* contact for every "To: " or "Cc: " line, in order.
C5_LastHeaderWins ==
    pc = "returned" =>
        /\ \A f \in {<<"sender", FromPrefix>>, <<"timestamp", SentPrefix>>,
                     <<"subject", SubjectPrefix>>} :
              LET hs == HeaderLines(ScannedLines(reply[1]), f[2])
              IN  hs # <<>> => metadata[1][f[1]] = Some(FieldOf(hs[Len(hs)], f[2]))
        /\ LET rs == SelectSeq(ScannedLines(reply[1]),
                         LAMBDA l : Prefix(l, 4) = ToPrefix \/ Prefix(l, 4) = CcPrefix)
           IN  rs # <<>> =>
                   metadata[1].recipients =
                       Some([k \in 1..Len(rs) |-> get_contact(Suffix(rs[k], 4))])

\* Two different "Sent: " lines were scanned.
C5_Witness ==
    /\ pc = "returned"
    /\ LET hs == HeaderLines(ScannedLines(reply[1]), SentPrefix)
       IN  Len(hs) = 2 /\ hs[1] # hs[2]

\* C6: get_metadata looks at the lines of index 0 to 10 and at no other: a
\* field is present exactly when one of those lines has its prefix, and
\* then comes from one of them, recipients has one contact for each "To: "
\* or "Cc: " line among them, and `lines` is the length of the whole reply.
C6_ScansLinesZeroToTen ==
    pc = "returned" =>
        LET w == ScannedLines(reply[1])
            rs == SelectSeq(w, LAMBDA l : Prefix(l, 4) = ToPrefix
                                          \/ Prefix(l, 4) = CcPrefix)
        IN  /\ metadata[1].lines = Len(reply[1])
            /\ \A f \in {<<"sender", FromPrefix>>, <<"timestamp", SentPrefix>>,
                         <<"subject", SubjectPrefix>>} :
                  IF HeaderLines(w, f[2]) = <<>>
                  THEN metadata[1][f[1]] = None
                  ELSE metadata[1][f[1]] \in
                           {Some(FieldOf(l, f[2])) : l \in Range(HeaderLines(w, f[2]))}
            /\ IF rs = <<>>
               THEN metadata[1].recipients = None
               ELSE /\ metadata[1].recipients # None
                    /\ Len(metadata[1].recipients[1]) = Len(rs)

\* A reply with a "Sent: " line at index 10, which is read, and a
\* "Subject: " line at index 11, which is not.
C6_Witness ==
    /\ pc = "returned"
    /\ Len(reply[1]) >= 12
    /\ Prefix(reply[1][11], 6) = SentPrefix
    /\ Prefix(reply[1][12], 9) = SubjectPrefix
    /\ metadata[1].timestamp = Some(Suffix(reply[1][11], 6))
    /\ metadata[1].subject = None

(***************************************************************************)
(* The signature detector.                                                 *)
(***************************************************************************)
\* The name-match condition on a reply line: its sanitized form has two
\* tokens or more and each occurs, whatever its case, in the sender's name.
NameMatch(line, n) ==
    LET toks == split(sanitize_name(line))
    IN  /\ Len(toks) >= 2
        /\ \A k \in 1..Len(toks) : IsSubstring(lower(toks[k]), lower(n))

\* C2: with a positive length_divisor d no line further than
\* floor(n / d) lines from the end of a reply of n lines is reported as
\* the first line of a signature, n odd or even.
C2_SearchesAtMostQuotientLines ==
    (pc = "returned" /\ length_divisor > 0 /\ signature_metadata[1].has_signature)
        => Len(reply[1]) - loop_i + 1 <= Len(reply[1]) \div length_divisor

\* C3 as claimed: with length_divisor <= 0 get_signature raises and returns
\* no Signature Result.
C3_NonPositiveDivisorRaises ==
    (pc # "call" /\ length_divisor <= 0) =>
        (pc = "ZeroDivisionError" /\ signature_metadata = None)

\* C3 as amended: get_signature raises (ZeroDivisionError) exactly when
\* length_divisor is 0, and then returns nothing; with a negative
\* length_divisor it raises nothing and returns a Signature Result, found
\* by searching the whole reply.
C3_ZeroDivisorRaises ==
    pc # "call" =>
        /\ pc = "ZeroDivisionError" <=> length_divisor = 0
        /\ pc = "ZeroDivisionError" => signature_metadata = None
        /\ pc = "returned" => signature_metadata # None
        /\ (pc = "returned" /\ length_divisor < 0) =>
              (signature_metadata[1].has_signature <=>
                  \E k \in 1..Len(reply[1]) : NameMatch(reply[1][k], sender[1].name))

\* get_signature was called with length_divisor 0 on a reply that has a
\* line matching the sender's name.
C3_Witness ==
    /\ pc = "ZeroDivisionError"
    /\ length_divisor = 0
    /\ \E k \in 1..Len(reply[1]) : NameMatch(reply[1][k], sender[1].name)

\* The case of C4: the default divisor, a sender whose sanitized name is
\* "John Smith" and a reply that ends with the lines "Thanks," and
\* "John Smith".
C4_Case ==
    /\ pc = "returned"
    /\ length_divisor = 2
    /\ sender[1].name = JohnSmith
    /\ Len(reply[1]) >= 2
    /\ reply[1][Len(reply[1]) - 1] = Thanks
    /\ reply[1][Len(reply[1])] = JohnSmith

\* C4 as claimed: the signature is the last two lines, "Thanks," and
\* "John Smith", and reply_text is the lines above those two.
C4_SignatureIsLastTwoLines ==
    C4_Case =>
        /\ signature_metadata[1].has_signature
        /\ signature_metadata[1].signature = Some(Thanks \o <<"\n">> \o JohnSmith)
        /\ signature_metadata[1].reply_text =
               Some(strip(join(<<"\n">>, Prefix(reply[1], Len(reply[1]) - 2))))

\* C4 as amended: the signature is the last line alone, "John Smith", and
\* reply_text is every line above it, "Thanks," included, joined by
\* newlines and trimmed.
C4_SignatureIsLastLine ==
    C4_Case =>
        /\ signature_metadata[1].has_signature
        /\ signature_metadata[1].signature = Some(JohnSmith)
        /\ signature_metadata[1].reply_text =
               Some(strip(join(<<"\n">>, Prefix(reply[1], Len(reply[1]) - 1))))

\* The case of C4 with a line above "Thanks,".
C4_Witness == C4_Case /\ Len(reply[1]) = 3 /\ reply[1][1] # <<>>

\* C7: with the default divisor a reply of no line or of one line has no
\* signature: has_signature is false, signature and reply_text are absent.
C7_ShortReplyHasNoSignature ==
    (pc = "returned" /\ length_divisor = 2 /\ Len(reply[1]) <= 1) =>
        /\ ~ signature_metadata[1].has_signature
        /\ signature_metadata[1].signature = None
        /\ signature_metadata[1].reply_text = None

\* C10: a signature that is found begins at a line that satisfies the
\* name-match condition and that no matching line follows; signature is
\* that line and the lines after it, reply_text the lines before it (each
\* joined by newlines and trimmed); and there is none when the sender's
\* sanitized name is empty.
C10_SignatureStartsAtLastNameMatch ==
    pc = "returned" =>
        /\ signature_metadata[1].has_signature =>
              \E k \in 1..Len(reply[1]) :
                  /\ NameMatch(reply[1][k], sender[1].name)
                  /\ \A m \in (k + 1)..Len(reply[1]) :
                        ~ NameMatch(reply[1][m], sender[1].name)
                  /\ signature_metadata[1].signature =
                        Some(strip(join(<<"\n">>, Suffix(reply[1], k - 1))))
                  /\ signature_metadata[1].reply_text =
                        Some(strip(join(<<"\n">>, Prefix(reply[1], k - 1))))
        /\ sender[1].name = <<>> => ~ signature_metadata[1].has_signature

\* A signature was found in a reply with two matching lines and a line
\* of one matching token after them.
C10_Witness ==
    /\ pc = "returned"
    /\ signature_metadata[1].has_signature
    /\ Len(reply[1]) = 3
    /\ NameMatch(reply[1][1], sender[1].name)
    /\ NameMatch(reply[1][2], sender[1].name)
    /\ reply[1][3] = <<"s","m","i","t","h">>
    /\ signature_metadata[1].reply_text = Some(reply[1][1])

====
